---- MODULE Spec2Model ----
(***************************************************************************)
(* Model of raglit-fixed-mcp: the fixed-size chunker                       *)
(* (src/src/chunkers/fixedChunker.ts, Spec), the three tool handlers       *)
(* (SpecTool), getEmbedding (SpecEmbed), concurrent chunk_document         *)
(* invocations (SpecConc) and the server start-up (SpecServer).  A string  *)
(* is a sequence of one-character strings; a token and a chunk content are *)
(* strings too.                                                            *)
(***************************************************************************)
EXTENDS Integers, Sequences, FiniteSets, TLC

VARIABLES
    options,                \* argument of `new FixedChunker(options)`, or NoValue
    chunker,                \* the constructed instance (its two private fields), or NoValue
    ctorError,              \* message of the Error thrown by the constructor, or NoError
    pc,                     \* position of the chunk() call: "idle" (not called), "loop", "done"
    text,                   \* argument `text` of the current chunk() call
    metadata,               \* argument `metadata` of the current chunk() call
    tokens,                 \* local `tokens`
    chunks,                 \* local `chunks`
    currentChunkIndex,      \* local `currentChunkIndex`
    currentTokenStartIndex, \* local `currentTokenStartIndex`
    outcome,                \* how the chunk() call ended: "none", "returned", "threw"
    previous,               \* arguments and result of the earlier chunk() call on this
                            \* instance, or NoValue
    tool,                   \* name of the tool whose handler was invoked, or "none"
    build,                  \* the chunk_document handler that runs: "src" (the
                            \* TypeScript source) or "dist" (the compiled module)
    hpc,                    \* position of the handler: "idle", "awaitEmbedding",
                            \* "awaitStore", "awaitBackend", "done"
    params,                 \* the validated parameters the handler was called with
    hchunks,                \* handler local `chunks` (chunk_document)
    hk,                     \* position of the for-of loop in hchunks, from 1
    chunkIds,               \* handler local `chunkIds` (chunk_document)
    requests,               \* requests sent and responses received so far, in order
    result,                 \* the value the handler resolved to, or NoValue
    epc,                    \* position of the getEmbedding call: "idle", "awaitFetch",
                            \* "awaitJson", "awaitErrorJson", "done"
    einput,                 \* argument `text` of the getEmbedding call
    timer,                  \* the timeout timer: "none", "armed", "cleared", "fired"
    deadline,               \* time at which the armed timer fires, in ms
    now,                    \* time since the getEmbedding call, in ms
    estatus,                \* response.status once fetch has resolved, else 0
    eresult,                \* what the getEmbedding promise settled to, or NoValue
    conc,                   \* the handler state of each concurrent chunk_document invocation
    mpc,                    \* position of main() in MainSteps: 0 before the modules are
                            \* loaded, past the end once main() returned
    registered,             \* names given to server.tool so far, in order
    transport,              \* the stdio transport: "none", "created", "started", "closed"
    connected,              \* the promise of server.connect has resolved
    sigintHandler,          \* a SIGINT listener is installed
    shutdown,               \* position of the SIGINT listener: "none", "closing", "exited"
    exitCode,               \* "running", "0", "1", or "signal" (killed by the signal)
    accepted                \* tool calls the server has accepted, with the tools known then

chunkerVars == <<options, chunker, ctorError, pc, text, metadata, tokens, chunks,
                 currentChunkIndex, currentTokenStartIndex, outcome, previous>>

toolVars == <<tool, build, hpc, params, hchunks, hk, chunkIds, requests, result>>

embedVars == <<epc, einput, timer, deadline, now, estatus, eresult>>

concVars == <<conc>>

serverVars == <<mpc, registered, transport, connected, sigintHandler, shutdown,
                exitCode, accepted>>

vars == <<chunkerVars, toolVars, embedVars, concVars, serverVars>>

----------------------------------------------------------------------------
(* Bounds of the explored inputs *)

MaxTextLen == 4     \* longest free-form text, in characters
MaxWords == 6       \* longest text of single-spaced words, in words
MaxCfg == 5         \* largest chunkSize / chunkOverlap tried in the grid
MaxNeg == 1         \* the grid of chunkSize / chunkOverlap starts at -MaxNeg

NoValue == [none |-> TRUE]
NoError == "none"

\* the characters of the class \s of a JavaScript regular expression: space,
\* tab, line feed, carriage return, form feed, then U+000B, U+00A0, U+1680
\* and U+FEFF written as themselves; a character that cannot be written in a
\* string of this module stands in a text as the name of its code point
Whitespace ==
    {" ", "\t", "\n", "\r", "\f", "", " ", " ", "﻿",
     "U+2000", "U+2001", "U+2002", "U+2003", "U+2004", "U+2005", "U+2006", "U+2007",
     "U+2008", "U+2009", "U+200A", "U+2028", "U+2029", "U+202F", "U+205F", "U+3000"}
Chars == {"a", " ", "\n"}
Letters == <<"a", "b", "c", "d", "e">>

RECURSIVE StringsUpTo(_)
StringsUpTo(n) ==
    IF n = 0 THEN {<<>>}
    ELSE LET shorter == StringsUpTo(n - 1)
         IN  shorter \cup {Append(s, c) : s \in {t \in shorter : Len(t) = n - 1}, c \in Chars}

\* the i-th word of the word texts: "a".."e", then two-letter words
Word(i) ==
    IF i <= Len(Letters) THEN <<Letters[i]>>
    ELSE <<Letters[((i - 1) \div Len(Letters))], Letters[((i - 1) % Len(Letters)) + 1]>>

RECURSIVE WordText(_)
WordText(n) ==
    IF n = 0 THEN <<>>
    ELSE IF n = 1 THEN Word(1)
    ELSE WordText(n - 1) \o <<" ">> \o Word(n)

Texts == StringsUpTo(MaxTextLen) \cup {WordText(n) : n \in 0..MaxWords}

ScenarioOptions == {[chunkSize |-> 500, chunkOverlap |-> 50]}
OptionsSet ==
    {[chunkSize |-> s, chunkOverlap |-> o] : s \in (0 - MaxNeg)..MaxCfg, o \in (0 - MaxNeg)..MaxCfg}
        \cup ScenarioOptions

MetaKeys == {"source", "chunk_index", "word_count"}
MetaValues == {99}
BaseMetadatas == UNION {[ks -> MetaValues] : ks \in SUBSET MetaKeys}

----------------------------------------------------------------------------
(* Pure helpers of FixedChunker *)

\* variant: the end of the slice not bounded by chunkSize
MinIgnoresFirst(a, b) == b

\* Math.min(a, b)
Min(a, b) == IF a < b THEN a ELSE b

\* variant: the first check written with > (equal size and overlap accepted)
ConstructorErrorStrictOverlap(chunkSize, chunkOverlap) ==
    IF chunkOverlap > chunkSize
    THEN "Chunk overlap must be less than chunk size to ensure progression."
    ELSE IF chunkSize <= 0
    THEN "Chunk size must be a positive number."
    ELSE NoError

\* variant: the second check written with < (a chunk size of zero accepted)
ConstructorErrorStrictSize(chunkSize, chunkOverlap) ==
    IF chunkOverlap >= chunkSize
    THEN "Chunk overlap must be less than chunk size to ensure progression."
    ELSE IF chunkSize < 0
    THEN "Chunk size must be a positive number."
    ELSE NoError

\* variant: the second check off by one (a chunk size of one rejected)
ConstructorErrorSizeOne(chunkSize, chunkOverlap) ==
    IF chunkOverlap >= chunkSize
    THEN "Chunk overlap must be less than chunk size to ensure progression."
    ELSE IF chunkSize <= 1
    THEN "Chunk size must be a positive number."
    ELSE NoError

\* variant: a negative overlap rejected as well
ConstructorErrorNoNegative(chunkSize, chunkOverlap) ==
    IF chunkOverlap >= chunkSize \/ chunkOverlap < 0
    THEN "Chunk overlap must be less than chunk size to ensure progression."
    ELSE IF chunkSize <= 0
    THEN "Chunk size must be a positive number."
    ELSE NoError

\* the constructor's two checks: the message thrown, or NoError
ConstructorError(chunkSize, chunkOverlap) ==
    IF chunkOverlap >= chunkSize
    THEN "Chunk overlap must be less than chunk size to ensure progression."
    ELSE IF chunkSize <= 0
    THEN "Chunk size must be a positive number."
    ELSE NoError

\* text.split(/\s+/): every run of whitespace is one separator; the pieces
\* before a leading run and after a trailing run are empty strings
RECURSIVE SplitFrom(_, _, _, _)
SplitFrom(str, i, cur, acc) ==
    IF i > Len(str) THEN Append(acc, cur)
    ELSE IF str[i] \in Whitespace
    THEN IF i > 1 /\ str[i - 1] \in Whitespace
         THEN SplitFrom(str, i + 1, cur, acc)
         ELSE SplitFrom(str, i + 1, <<>>, Append(acc, cur))
    ELSE SplitFrom(str, i + 1, Append(cur, str[i]), acc)

Split(str) == SplitFrom(str, 1, <<>>, <<>>)

NonEmpty(token) == Len(token) > 0

\* variant: the split without the filter of empty strings
TokenizeUnfiltered(str) == Split(str)

\* text.split(/\s+/).filter((token) => token.length > 0)
Tokenize(str) == SelectSeq(Split(str), NonEmpty)

\* variant: the slice starts one token late
SliceFromNext(seq, start, end) == SubSeq(seq, start + 2, end)

\* tokens.slice(start, end) with 0-based start (inclusive) and end (exclusive)
Slice(seq, start, end) == SubSeq(seq, start + 1, end)

\* variant: the tokens joined without a separator
RECURSIVE JoinNoSeparator(_)
JoinNoSeparator(toks) ==
    IF Len(toks) = 0 THEN <<>>
    ELSE toks[1] \o JoinNoSeparator(Tail(toks))

\* chunkTokens.join(" ")
RECURSIVE Join(_)
Join(toks) ==
    IF Len(toks) = 0 THEN <<>>
    ELSE IF Len(toks) = 1 THEN toks[1]
    ELSE toks[1] \o <<" ">> \o Join(Tail(toks))

\* variant: the spread written in the other order, a's value wins
SpreadBaseLast(a, b) ==
    [k \in (DOMAIN a) \cup (DOMAIN b) |-> IF k \in DOMAIN a THEN a[k] ELSE b[k]]

\* { ...a, ...b }: the keys of both, b's value where both have the key
Spread(a, b) ==
    [k \in (DOMAIN a) \cup (DOMAIN b) |-> IF k \in DOMAIN b THEN b[k] ELSE a[k]]

\* variant: word_count taken from the length of the content string
MakeChunkCharCount(chunkTokens, index, base) ==
    [content  |-> Join(chunkTokens),
     index    |-> index,
     metadata |-> Spread(base, [chunk_index |-> index,
                                word_count |-> Len(Join(chunkTokens))])]

\* the object pushed onto `chunks`
MakeChunk(chunkTokens, index, base) ==
    [content  |-> Join(chunkTokens),
     index    |-> index,
     metadata |-> Spread(base, [chunk_index |-> index, word_count |-> Len(chunkTokens)])]

\* variant: the merge done in place, Object.assign(metadata, {...})
CallerMetadataAssigned(base, chunkMetadata) == chunkMetadata

\* the caller's metadata object after a push: the object literal with the
\* spread builds a new object and leaves the spread one as it was
CallerMetadata(base, chunkMetadata) == base

\* variant: the advance forgets the overlap
AdvanceNoOverlap(start, chunkSize, chunkOverlap) == start + chunkSize

\* variant: the advance off by one
AdvancePlusOne(start, chunkSize, chunkOverlap) == start + (chunkSize - chunkOverlap) + 1

\* currentTokenStartIndex += this.chunkSize - this.chunkOverlap
Advance(start, chunkSize, chunkOverlap) == start + (chunkSize - chunkOverlap)

\* variant: the chunk index incremented twice per iteration
NextChunkIndexTwice(index) == index + 2

\* currentChunkIndex++
NextChunkIndex(index) == index + 1

\* variant: a text without tokens rejected with an Error
EmptyOutcomeThrows == "threw"

\* how chunk() ends when the text has no token (the early return)
EmptyOutcome == "returned"

\* the while loop of chunk() from cursor `start` on, as one function
RECURSIVE ChunkLoop(_, _, _, _, _, _)
ChunkLoop(cfg, toks, base, start, index, acc) ==
    LET end == Min(start + cfg.chunkSize, Len(toks))
        pushed == Append(acc, MakeChunk(Slice(toks, start, end), index, base))
        nextStart == Advance(start, cfg.chunkSize, cfg.chunkOverlap)
    IN  IF cfg.chunkSize - cfg.chunkOverlap <= 0 \/ ~(nextStart < Len(toks))
        THEN pushed
        ELSE ChunkLoop(cfg, toks, base, nextStart, NextChunkIndex(index), pushed)

\* chunker.chunk(str, base) of a constructed chunker cfg, as one function
chunk(cfg, str, base) ==
    LET toks == Tokenize(str)
    IN  IF Len(toks) = 0 THEN <<>> ELSE ChunkLoop(cfg, toks, base, 0, 0, <<>>)

----------------------------------------------------------------------------
(* The token_count variant of FixedChunker (src/unnamed/part_002) *)

\* its constructor has the overlap check only
ConstructorErrorTokenCount(chunkSize, chunkOverlap) ==
    IF chunkOverlap >= chunkSize
    THEN "Chunk overlap must be less than chunk size"
    ELSE NoError

\* text.split(/\s+/), the empty pieces kept: "" gives one empty token
TokenizeTokenCount(str) == Split(str)

\* tokens.slice(start, end) for start >= 0 and an end of either sign: a
\* negative end counts from the end of the array
SliceSigned(seq, start, end) ==
    LET to == IF end < 0
              THEN (IF Len(seq) + end < 0 THEN 0 ELSE Len(seq) + end)
              ELSE Min(end, Len(seq))
    IN  SubSeq(seq, start + 1, to)

MakeChunkTokenCount(chunkTokens, index, base) ==
    [content  |-> Join(chunkTokens),
     index    |-> index,
     metadata |-> Spread(base, [chunk_index |-> index, token_count |-> Len(chunkTokens)])]

\* its while loop from cursor `start` on
RECURSIVE ChunkLoopTokenCount(_, _, _, _, _, _)
ChunkLoopTokenCount(cfg, toks, base, start, index, acc) ==
    LET end == Min(start + cfg.chunkSize, Len(toks))
        pushed == Append(acc, MakeChunkTokenCount(SliceSigned(toks, start, end), index, base))
        nextStart == start + (cfg.chunkSize - cfg.chunkOverlap)
    IN  IF nextStart >= Len(toks) \/ cfg.chunkSize - cfg.chunkOverlap <= 0
        THEN pushed
        ELSE ChunkLoopTokenCount(cfg, toks, base, nextStart, index + 1, pushed)

\* chunk(str, base) of the token_count variant constructed with cfg
chunkTokenCount(cfg, str, base) ==
    LET toks == TokenizeTokenCount(str)
    IN  IF Len(toks) = 0 THEN <<>> ELSE ChunkLoopTokenCount(cfg, toks, base, 0, 0, <<>>)

----------------------------------------------------------------------------
(* State machine of the chunker *)

\* the chunk_document invocations that may run concurrently
Invocations == {"A", "B"}

\* the locals of a chunk_document handler that has not been called
HandlerIdle ==
    [hpc |-> "idle", params |-> NoValue, hchunks |-> <<>>, hk |-> 0, chunkIds |-> <<>>,
     requests |-> <<>>, result |-> NoValue]

Init ==
    /\ options = NoValue
    /\ chunker = NoValue
    /\ ctorError = NoError
    /\ pc = "idle"
    /\ text = <<>>
    /\ metadata = <<>>
    /\ tokens = <<>>
    /\ chunks = <<>>
    /\ currentChunkIndex = 0
    /\ currentTokenStartIndex = 0
    /\ outcome = "none"
    /\ previous = NoValue
    /\ tool = "none"
    /\ build = "src"
    /\ hpc = "idle"
    /\ params = NoValue
    /\ hchunks = <<>>
    /\ hk = 0
    /\ chunkIds = <<>>
    /\ requests = <<>>
    /\ result = NoValue
    /\ epc = "idle"
    /\ einput = <<>>
    /\ timer = "none"
    /\ deadline = 0
    /\ now = 0
    /\ estatus = 0
    /\ eresult = NoValue
    /\ conc = [i \in Invocations |-> HandlerIdle]
    /\ mpc = 0
    /\ registered = <<>>
    /\ transport = "none"
    /\ connected = FALSE
    /\ sigintHandler = FALSE
    /\ shutdown = "none"
    /\ exitCode = "running"
    /\ accepted = <<>>

\* new FixedChunker(opts)
Construct(opts) ==
    /\ options = NoValue
    /\ options' = opts
    /\ LET err == ConstructorError(opts.chunkSize, opts.chunkOverlap)
       IN  /\ ctorError' = err
           /\ chunker' = IF err = NoError
                         THEN [chunkSize |-> opts.chunkSize, chunkOverlap |-> opts.chunkOverlap]
                         ELSE NoValue
    /\ UNCHANGED <<pc, text, metadata, tokens, chunks, currentChunkIndex,
                   currentTokenStartIndex, outcome, previous>>
    /\ UNCHANGED <<toolVars, embedVars, concVars, serverVars>>

\* chunker.chunk(t, md), up to the first test of the while condition
ChunkCall(t, md) ==
    /\ chunker # NoValue
    /\ pc = "idle"
    /\ text' = t
    /\ metadata' = md
    /\ tokens' = Tokenize(t)
    /\ chunks' = <<>>
    /\ currentChunkIndex' = 0
    /\ currentTokenStartIndex' = 0
    /\ IF Len(tokens') = 0
       THEN pc' = "done" /\ outcome' = EmptyOutcome
       ELSE pc' = "loop" /\ outcome' = "none"
    /\ UNCHANGED <<options, chunker, ctorError, previous>>
    /\ UNCHANGED <<toolVars, embedVars, concVars, serverVars>>

\* a second chunker.chunk() on the same instance, by a caller that passes the
\* same text and the same metadata object again and keeps the first result
ChunkAgain ==
    /\ pc = "done"
    /\ previous = NoValue
    /\ previous' = [text |-> text, metadata |-> metadata, chunks |-> chunks]
    /\ tokens' = Tokenize(text)
    /\ chunks' = <<>>
    /\ currentChunkIndex' = 0
    /\ currentTokenStartIndex' = 0
    /\ IF Len(tokens') = 0
       THEN pc' = "done" /\ outcome' = EmptyOutcome
       ELSE pc' = "loop" /\ outcome' = "none"
    /\ UNCHANGED <<options, chunker, ctorError, text, metadata>>
    /\ UNCHANGED <<toolVars, embedVars, concVars, serverVars>>

\* one iteration of the while loop, and the return when the loop is left
ChunkIterate ==
    /\ pc = "loop"
    /\ LET currentTokenEndIndex ==
               Min(currentTokenStartIndex + chunker.chunkSize, Len(tokens))
           chunkTokens == Slice(tokens, currentTokenStartIndex, currentTokenEndIndex)
           nextStart == Advance(currentTokenStartIndex, chunker.chunkSize,
                                chunker.chunkOverlap)
           pushed == MakeChunk(chunkTokens, currentChunkIndex, metadata)
       IN  /\ chunks' = Append(chunks, pushed)
           /\ metadata' = CallerMetadata(metadata, pushed.metadata)
           /\ currentTokenStartIndex' = nextStart
           /\ currentChunkIndex' = NextChunkIndex(currentChunkIndex)
           /\ IF chunker.chunkSize - chunker.chunkOverlap <= 0
                 \/ ~(nextStart < Len(tokens))
              THEN pc' = "done" /\ outcome' = "returned"
              ELSE pc' = "loop" /\ outcome' = "none"
    /\ UNCHANGED <<options, chunker, ctorError, text, tokens, previous>>
    /\ UNCHANGED <<toolVars, embedVars, concVars, serverVars>>

Next ==
    \/ \E opts \in OptionsSet : Construct(opts)
    \/ \E t \in Texts, md \in BaseMetadatas : ChunkCall(t, md)
    \/ ChunkIterate
    \/ ChunkAgain

Spec == Init /\ [][Next]_vars

\* the function chunk and the stepwise call return the same chunks
ChunkAgreesWithSteps ==
    (pc = "done" /\ outcome = "returned") => chunks = chunk(chunker, text, metadata)

----------------------------------------------------------------------------
(* The tool layer: chunk_document, search_chunks, filter_metadata.  A JS      *)
(* object is a function from its keys; an optional parameter that was not     *)
(* given is a key that is absent.                                              *)

MaxToolWords == 3   \* longest document given to chunk_document, in words
MaxToolCfg == 3     \* largest chunkSize / chunkOverlap given to chunk_document

DefaultChunkSize == 500
DefaultChunkOverlap == 50

Has(obj, key) == key \in DOMAIN obj

\* inputs of chunk_document that pass the schema, before the defaults
ToolTexts == {WordText(n) : n \in 1..MaxToolWords} \cup {<<" ">>}
DocumentIds == {"doc1"}
ToolMetadatas == {[source |-> 99], [chunk_index |-> 99]}
RawChunkParams ==
    LET required == {[content |-> c, documentId |-> d] : c \in ToolTexts, d \in DocumentIds}
        withSize == required \cup
                    {r @@ ("chunkSize" :> n) : r \in required, n \in 1..MaxToolCfg}
        withOverlap == withSize \cup
                    {r @@ ("chunkOverlap" :> n) : r \in withSize, n \in 0..MaxToolCfg}
    IN  withOverlap \cup {r @@ ("metadata" :> m) : r \in withOverlap, m \in ToolMetadatas}

\* inputs of search_chunks and filter_metadata that pass the schema
FilterKeys == {"documentId", "category"}
FilterValues == {"", "x"}
Filters == UNION {[ks -> FilterValues] : ks \in SUBSET FilterKeys}
Queries == {"q"}
Limits == {5, 10}
Thresholds == {7}       \* in tenths
SearchParams ==
    LET required == {[query |-> q, limit |-> l, threshold |-> t] :
                        q \in Queries, l \in Limits, t \in Thresholds}
    IN  required \cup {r @@ ("metadataFilter" :> f) : r \in required, f \in Filters}
FilterParams ==
    {[metadataFilter |-> f, limit |-> l] : f \in Filters \ {<<>>}, l \in Limits}

\* what the embedding provider and the backend may answer
Vectors == {<<1>>, <<2>>}
EmbeddingOutcomes ==
    {[kind |-> "resolved", value |-> v] : v \in Vectors}
        \cup {[kind |-> "rejected", error |-> "Embedding request timed out after 10000ms"]}
Digits == <<"0", "1", "2", "3", "4", "5", "6", "7", "8", "9">>
IdOf(index) == <<"i", "d", Digits[index + 1]>>
Rows(index) == {<<>>, <<[id |-> IdOf(index)]>>, <<[id |-> <<>>]>>, <<[content |-> "c"]>>}

\* a parsed JSON value that is not an array: its type and, in the key
\* `scalar`, its JSON text
Scalars ==
    {[type |-> "boolean", scalar |-> "false"], [type |-> "boolean", scalar |-> "true"],
     [type |-> "number", scalar |-> "0"], [type |-> "null", scalar |-> "null"],
     [type |-> "string", scalar |-> ""]}

\* a body that parses as JSON carries the type of the parsed value; an
\* array has its elements in the key `value`
BackendOutcomes(index) ==
    {[kind |-> "nonOk"], [kind |-> "networkError"], [kind |-> "emptyBody"],
     [kind |-> "unparsable"]}
        \cup {[kind |-> "json", type |-> "array", value |-> rows] : rows \in Rows(index)}
        \cup {[kind |-> "json", type |-> j.type, scalar |-> j.scalar] : j \in Scalars}

\* the truthiness of a typed JSON value: null, false, 0 and "" are falsy,
\* every other scalar, every array and every object is truthy
Truthy(j) ==
    IF j.type = "null" THEN FALSE
    ELSE IF j.type = "boolean" THEN j.scalar # "false"
    ELSE IF j.type = "number" THEN j.scalar \notin {"0", "-0", "NaN"}
    ELSE IF j.type = "string" THEN j.scalar # ""
    ELSE TRUE

\* the schema's defaults for chunkSize and chunkOverlap
ChunkDocumentDefaults(raw) ==
    [k \in (DOMAIN raw) \cup {"chunkSize", "chunkOverlap"} |->
        IF Has(raw, k) THEN raw[k]
        ELSE IF k = "chunkSize" THEN DefaultChunkSize ELSE DefaultChunkOverlap]

\* metadata || {} and metadataFilter || {}
OrEmpty(obj, key) == IF Has(obj, key) THEN obj[key] ELSE <<>>

\* RestApiChunkRepository.makeRequest: what the promise settles to
MakeRequestResult(answer) ==
    IF answer.kind = "networkError"
    THEN [kind |-> "rejected", error |-> "fetch failed"]
    ELSE IF answer.kind = "nonOk"
    THEN [kind |-> "rejected", error |-> "API error"]
    ELSE IF answer.kind = "emptyBody"
    THEN [kind |-> "resolved", defined |-> FALSE]
    ELSE IF answer.kind = "unparsable"
    THEN [kind |-> "rejected", error |-> "Failed to parse JSON response"]
    ELSE IF answer.type = "array"
    THEN [kind |-> "resolved", defined |-> TRUE, type |-> answer.type,
          value |-> answer.value]
    ELSE [kind |-> "resolved", defined |-> TRUE, type |-> answer.type,
          scalar |-> answer.scalar]

\* RestApiChunkRepository.storeChunk: response?.[0]?.id
StoreChunkResult(answer) ==
    LET response == MakeRequestResult(answer)
    IN  IF response.kind = "rejected" THEN response
        ELSE IF response.defined /\ response.type = "array" /\ Len(response.value) >= 1
                /\ Has(response.value[1], "id")
        THEN [kind |-> "resolved", defined |-> TRUE, value |-> response.value[1].id]
        ELSE [kind |-> "resolved", defined |-> FALSE]

\* response || []: undefined and every falsy value give the empty array
ResultsOrEmpty(response) ==
    IF ~response.defined \/ ~Truthy(response) THEN <<>>
    ELSE IF response.type = "array" THEN response.value
    ELSE [type |-> response.type, scalar |-> response.scalar]

\* variant: the base metadata of the document sent instead of the chunk's
StoreParamsBaseMetadata(c, embedding, p) ==
    [content |-> c.content, embedding |-> embedding, documentId |-> p.documentId,
     chunkIndex |-> c.index, chunkSize |-> p.chunkSize, chunkOverlap |-> p.chunkOverlap,
     chunkStrategy |-> "fixed-size", metadata |-> OrEmpty(p, "metadata")]

\* the argument of chunkRepository.storeChunk for chunk c
StoreParams(c, embedding, p) ==
    [content |-> c.content, embedding |-> embedding, documentId |-> p.documentId,
     chunkIndex |-> c.index, chunkSize |-> p.chunkSize, chunkOverlap |-> p.chunkOverlap,
     chunkStrategy |-> "fixed-size", metadata |-> c.metadata]

\* variant: every settled store pushes its value, defined or not
PushChunkIdAlways(ids, stored) ==
    Append(ids, IF stored.defined THEN stored.value ELSE <<>>)

\* if (chunkId) chunkIds.push(chunkId): undefined and "" are not pushed
PushChunkId(ids, stored) ==
    IF stored.defined /\ stored.value # <<>> THEN Append(ids, stored.value) ELSE ids

\* the two chunk_document handlers of the repository
HandlerBuilds == {"src", "dist"}

\* the compiled handler: chunkIds.push(chunkId), whatever storeChunk resolved
\* to; an entry of the array is an ID or undefined
PushChunkIdDist(ids, stored) ==
    Append(ids, IF stored.defined THEN [defined |-> TRUE, value |-> stored.value]
                ELSE [defined |-> FALSE])

\* the compiled handler: chunkIds.filter((id) => id !== undefined)
RECURSIVE FilterDefined(_)
FilterDefined(ids) ==
    IF Len(ids) = 0 THEN <<>>
    ELSE (IF ids[1].defined THEN <<ids[1].value>> ELSE <<>>) \o FilterDefined(Tail(ids))

\* the push of the handler that runs
PushChunkIdOf(b, ids, stored) ==
    IF b = "dist" THEN PushChunkIdDist(ids, stored) ELSE PushChunkId(ids, stored)

\* the chunkIds field of the success response of the handler that runs
ResponseChunkIds(b, ids) ==
    IF b = "dist" THEN FilterDefined(ids) ELSE ids

\* the rpc parameters of searchSimilarChunks
SearchRequest(embedding, limit, metadataFilter, threshold) ==
    LET rpcParams == [query_embedding |-> embedding, match_threshold |-> threshold,
                      match_count |-> limit]
    IN  IF Has(metadataFilter, "documentId") /\ metadataFilter["documentId"] # ""
        THEN rpcParams @@ ("p_document_id" :> metadataFilter["documentId"])
        ELSE rpcParams

\* the rpc parameters of filterChunksByMetadata
FilterRequest(metadataFilter, limit) ==
    LET rpcParams == [p_filter_metadata |-> metadataFilter, p_limit |-> limit]
    IN  IF Has(metadataFilter, "documentId") /\ metadataFilter["documentId"] # ""
        THEN rpcParams @@ ("p_document_id" :> metadataFilter["documentId"])
        ELSE rpcParams

\* the handlers' return values; the key isError is absent on success
ChunkSuccess(documentId, n, ids) ==
    [text |-> [success |-> TRUE, documentId |-> documentId, chunks |-> n, chunkIds |-> ids]]

\* variant: the error result without the isError flag
ChunkFailureNoFlag(documentId, message) ==
    [text |-> [success |-> FALSE, documentId |-> documentId, error |-> message]]

\* the result returned by the catch block of chunk_document
ChunkFailure(documentId, message) ==
    [text |-> [success |-> FALSE, documentId |-> documentId, error |-> message],
     isError |-> TRUE]

QuerySuccess(results) == [text |-> [success |-> TRUE, results |-> results]]

\* variant: the catch block throws the error again, the handler rejects
QueryFailureRethrows(message) == [rejected |-> message]

\* the result returned by the catch block of search_chunks / filter_metadata
QueryFailure(message) ==
    [text |-> [success |-> FALSE, error |-> message], isError |-> TRUE]

EmbedRequest(input) == [kind |-> "embed", input |-> input]

\* chunk_document handler, from its call to its first await (or its return)
InvokeChunkDocument(raw, b) ==
    /\ hpc = "idle"
    /\ build' = b
    /\ LET p == ChunkDocumentDefaults(raw)
           err == ConstructorError(p.chunkSize, p.chunkOverlap)
           cs == IF err = NoError
                 THEN chunk([chunkSize |-> p.chunkSize, chunkOverlap |-> p.chunkOverlap],
                            p.content, OrEmpty(p, "metadata"))
                 ELSE <<>>
       IN  /\ tool' = "chunk_document"
           /\ params' = p
           /\ hchunks' = cs
           /\ chunkIds' = <<>>
           /\ IF err # NoError
              THEN /\ result' = ChunkFailure(p.documentId, err)
                   /\ hpc' = "done" /\ hk' = 0 /\ requests' = <<>>
              ELSE IF Len(cs) = 0
              THEN /\ result' = ChunkSuccess(p.documentId, 0, <<>>)
                   /\ hpc' = "done" /\ hk' = 0 /\ requests' = <<>>
              ELSE /\ result' = NoValue
                   /\ hpc' = "awaitEmbedding" /\ hk' = 1
                   /\ requests' = <<EmbedRequest(cs[1].content)>>
    /\ UNCHANGED <<chunkerVars, embedVars, concVars, serverVars>>

\* chunk_document: getEmbedding settles; on success storeChunk is called
ChunkEmbeddingSettles(out) ==
    /\ tool = "chunk_document"
    /\ hpc = "awaitEmbedding"
    /\ IF out.kind = "resolved"
       THEN /\ requests' = requests \o
                    <<[kind |-> "embedded", value |-> out.value],
                      [kind |-> "store",
                       body |-> StoreParams(hchunks[hk], out.value, params)]>>
            /\ hpc' = "awaitStore"
            /\ UNCHANGED result
       ELSE /\ requests' = Append(requests, [kind |-> "embedFailed", error |-> out.error])
            /\ result' = ChunkFailure(params.documentId, out.error)
            /\ hpc' = "done"
    /\ UNCHANGED <<tool, build, params, hchunks, hk, chunkIds>>
    /\ UNCHANGED <<chunkerVars, embedVars, concVars, serverVars>>

\* variant: a store that rejects is caught inside the loop, which goes on
\* with the next chunk
StoreSettlesSkipsFailure(answer) ==
    /\ tool = "chunk_document"
    /\ hpc = "awaitStore"
    /\ LET stored == StoreChunkResult(answer)
           entry == IF stored.kind = "rejected"
                    THEN [kind |-> "storeFailed", error |-> stored.error]
                    ELSE [kind |-> "stored", id |-> stored]
       IN  /\ chunkIds' = IF stored.kind = "rejected" THEN chunkIds
                          ELSE PushChunkIdOf(build, chunkIds, stored)
           /\ IF hk < Len(hchunks)
              THEN /\ hk' = hk + 1
                   /\ requests' = requests \o <<entry, EmbedRequest(hchunks[hk + 1].content)>>
                   /\ hpc' = "awaitEmbedding"
                   /\ UNCHANGED result
              ELSE /\ requests' = Append(requests, entry)
                   /\ result' = ChunkSuccess(params.documentId, Len(hchunks),
                                              ResponseChunkIds(build, chunkIds'))
                   /\ hpc' = "done"
                   /\ UNCHANGED hk
    /\ UNCHANGED <<tool, build, params, hchunks>>
    /\ UNCHANGED <<chunkerVars, embedVars, concVars, serverVars>>

\* chunk_document: storeChunk settles; the loop goes on to the next chunk or
\* the handler returns
StoreSettles(answer) ==
    /\ tool = "chunk_document"
    /\ hpc = "awaitStore"
    /\ LET stored == StoreChunkResult(answer)
       IN  IF stored.kind = "rejected"
           THEN /\ requests' = Append(requests, [kind |-> "storeFailed", error |-> stored.error])
                /\ result' = ChunkFailure(params.documentId, stored.error)
                /\ hpc' = "done"
                /\ UNCHANGED <<hk, chunkIds>>
           ELSE /\ chunkIds' = PushChunkIdOf(build, chunkIds, stored)
                /\ IF hk < Len(hchunks)
                   THEN /\ hk' = hk + 1
                        /\ requests' = requests \o
                                <<[kind |-> "stored", id |-> stored],
                                  EmbedRequest(hchunks[hk + 1].content)>>
                        /\ hpc' = "awaitEmbedding"
                        /\ UNCHANGED result
                   ELSE /\ requests' = Append(requests, [kind |-> "stored", id |-> stored])
                        /\ result' = ChunkSuccess(params.documentId, Len(hchunks),
                                                   ResponseChunkIds(build, chunkIds'))
                        /\ hpc' = "done"
                        /\ UNCHANGED hk
    /\ UNCHANGED <<tool, build, params, hchunks>>
    /\ UNCHANGED <<chunkerVars, embedVars, concVars, serverVars>>

\* search_chunks handler, up to the await of getEmbedding
InvokeSearchChunks(p) ==
    /\ hpc = "idle"
    /\ tool' = "search_chunks"
    /\ params' = p
    /\ requests' = <<EmbedRequest(p.query)>>
    /\ hpc' = "awaitEmbedding"
    /\ UNCHANGED <<build, hchunks, hk, chunkIds, result>>
    /\ UNCHANGED <<chunkerVars, embedVars, concVars, serverVars>>

\* search_chunks: getEmbedding settles; on success searchSimilarChunks sends
\* its request
SearchEmbeddingSettles(out) ==
    /\ tool = "search_chunks"
    /\ hpc = "awaitEmbedding"
    /\ IF out.kind = "resolved"
       THEN /\ requests' = requests \o
                    <<[kind |-> "embedded", value |-> out.value],
                      [kind |-> "rpc", endpoint |-> "/rest/v1/rpc/match_chunks",
                       body |-> SearchRequest(out.value, params.limit,
                                              OrEmpty(params, "metadataFilter"),
                                              params.threshold)]>>
            /\ hpc' = "awaitBackend"
            /\ UNCHANGED result
       ELSE /\ requests' = Append(requests, [kind |-> "embedFailed", error |-> out.error])
            /\ result' = QueryFailure(out.error)
            /\ hpc' = "done"
    /\ UNCHANGED <<tool, build, params, hchunks, hk, chunkIds>>
    /\ UNCHANGED <<chunkerVars, embedVars, concVars, serverVars>>

\* filter_metadata handler, up to the request of filterChunksByMetadata
InvokeFilterMetadata(p) ==
    /\ hpc = "idle"
    /\ tool' = "filter_metadata"
    /\ params' = p
    /\ requests' = <<[kind |-> "rpc", endpoint |-> "/rest/v1/rpc/filter_chunks_by_meta",
                      body |-> FilterRequest(p.metadataFilter, p.limit)]>>
    /\ hpc' = "awaitBackend"
    /\ UNCHANGED <<build, hchunks, hk, chunkIds, result>>
    /\ UNCHANGED <<chunkerVars, embedVars, concVars, serverVars>>

\* search_chunks and filter_metadata: the backend request settles
BackendSettles(answer) ==
    /\ hpc = "awaitBackend"
    /\ LET response == MakeRequestResult(answer)
       IN  IF response.kind = "rejected"
           THEN /\ requests' = Append(requests, [kind |-> "rpcFailed", error |-> response.error])
                /\ result' = QueryFailure(response.error)
           ELSE /\ requests' = Append(requests, [kind |-> "rpcDone"])
                /\ result' = QuerySuccess(ResultsOrEmpty(response))
    /\ hpc' = "done"
    /\ UNCHANGED <<tool, build, params, hchunks, hk, chunkIds>>
    /\ UNCHANGED <<chunkerVars, embedVars, concVars, serverVars>>

\* what the backend may answer to the store of the current chunk
StoreOutcomes == BackendOutcomes(IF hpc = "awaitStore" THEN hk - 1 ELSE 0)

NextTool ==
    \/ \E raw \in RawChunkParams, b \in HandlerBuilds : InvokeChunkDocument(raw, b)
    \/ \E out \in EmbeddingOutcomes : ChunkEmbeddingSettles(out)
    \/ \E answer \in StoreOutcomes : StoreSettles(answer)
    \/ \E p \in SearchParams : InvokeSearchChunks(p)
    \/ \E out \in EmbeddingOutcomes : SearchEmbeddingSettles(out)
    \/ \E p \in FilterParams : InvokeFilterMetadata(p)
    \/ \E answer \in BackendOutcomes(0) : BackendSettles(answer)

SpecTool == Init /\ [][NextTool]_vars

----------------------------------------------------------------------------
(* getEmbedding (src/unnamed/part_000): the request to the embedding         *)
(* provider under a timeout.  Time is counted in ms since the call; an       *)
(* armed timer fires before time passes its deadline.                        *)

DEFAULT_EMBEDDING_TIMEOUT == 10000

TicksPerTimeout == 2    \* steps in which time reaches the timeout
TickMs == DEFAULT_EMBEDDING_TIMEOUT \div TicksPerTimeout
MaxClock == 2 * DEFAULT_EMBEDDING_TIMEOUT

\* the environment: the set of the variables that are set
EnvNames == {"EXTERNAL_API_URL", "API_BASE_URL", "OPENAI_API_KEY"}
Envs == SUBSET EnvNames

\* the two config.js of the source: the one that returns {postgrest,
\* embedding} (src/dist/config.js) and the one that returns {api, embedding}
\* (src/unnamed/part_008)
ConfigVariants == {"postgrest", "api"}
EmbedInputs == {WordText(1), WordText(2)}

\* what the provider may send
Statuses == {200, 201, 429, 500}

\* the value of the key `embedding`: a typed JSON value
EmbeddingValues ==
    {[type |-> "array", value |-> v] : v \in Vectors \cup {<<>>}}
        \cup {[type |-> "number", scalar |-> "0"], [type |-> "boolean", scalar |-> "false"],
              [type |-> "null", scalar |-> "null"], [type |-> "string", scalar |-> ""],
              [type |-> "number", scalar |-> "1"]}

\* the bodies: JSON that parses to an object, JSON null, text that is not
\* JSON, and a read that fails
Bodies ==
    {[kind |-> "json", value |-> [data |-> <<[embedding |-> e]>>]] : e \in EmbeddingValues}
        \cup {[kind |-> "json", value |-> [data |-> <<>>]],
              [kind |-> "json", value |-> [object |-> "list"]],
              [kind |-> "json", value |-> [data |-> <<[index |-> 0]>>]],
              [kind |-> "json", value |-> [error |-> [message |-> "quota"]]],
              [kind |-> "json", value |-> [error |-> [message |-> ""]]],
              [kind |-> "json", value |-> [code |-> 1]],
              [kind |-> "jsonNull"], [kind |-> "malformed"], [kind |-> "networkError"]}
OkBodies == Bodies
ErrorBodies == Bodies

\* response.ok
ResponseOk(status) == status >= 200 /\ status <= 299

MakeError(name, message) == [name |-> name, message |-> message]

Rejected(error) == [kind |-> "rejected", error |-> error]

\* loadConfig(): the message of the Error it throws, or NoError
LoadConfigError(variant, env) ==
    IF variant = "postgrest" /\ "EXTERNAL_API_URL" \notin env
    THEN "EXTERNAL_API_URL environment variable is required. This is the base URL for your PostgREST service."
    ELSE IF variant = "api" /\ "API_BASE_URL" \notin env
    THEN "API_BASE_URL environment variable is required. This is the base URL for your chunk storage and search API."
    ELSE IF "OPENAI_API_KEY" \notin env
    THEN "OPENAI_API_KEY environment variable is required for generating embeddings."
    ELSE NoError

\* the keys of the object loadConfig() returns
ConfigKeys(variant) ==
    IF variant = "postgrest" THEN {"postgrest", "embedding"} ELSE {"api", "embedding"}

\* the catch block: an AbortError becomes the timed-out Error, every other
\* error is thrown again as it is
CatchError(error) ==
    IF error.name = "AbortError"
    THEN MakeError("Error", "Embedding request timed out after 10000ms")
    ELSE error

\* response.json() of an OK response and the test of its structure
EmbeddingOf(body) ==
    IF body.kind = "networkError" THEN Rejected(CatchError(MakeError("TypeError", "terminated")))
    ELSE IF body.kind = "malformed"
    THEN Rejected(CatchError(MakeError("SyntaxError", "Unexpected token")))
    ELSE IF body.kind = "jsonNull"
    THEN Rejected(CatchError(MakeError("TypeError",
                                       "Cannot read properties of null (reading 'data')")))
    ELSE IF Has(body.value, "data") /\ Len(body.value["data"]) > 0
            /\ Has(body.value["data"][1], "embedding")
            /\ Truthy(body.value["data"][1]["embedding"])
    THEN IF body.value["data"][1]["embedding"].type = "array"
         THEN [kind |-> "resolved", value |-> body.value["data"][1]["embedding"].value]
         ELSE [kind |-> "resolved", scalar |-> body.value["data"][1]["embedding"].scalar]
    ELSE Rejected(CatchError(MakeError("Error", "Invalid response structure from OpenAI API.")))

\* the Error built from a non-OK response; when response.json() fails (or
\* the parsed value is null and reading its `error` throws), response.text()
\* is called on a body that was read already and rejects
ApiError(status, body) ==
    IF body.kind # "json"
    THEN Rejected(CatchError(MakeError("TypeError", "Body is unusable")))
    ELSE LET details ==
                 IF Has(body.value, "error") /\ Has(body.value["error"], "message")
                        /\ body.value["error"]["message"] # ""
                 THEN [text |-> body.value["error"]["message"]]
                 ELSE [stringified |-> body.value]
         IN  Rejected(CatchError([name |-> "Error", message |-> "OpenAI API error",
                                  status |-> status, details |-> details]))

\* getEmbedding(t), up to the await of fetch (or the throw of loadConfig)
GetEmbedding(t, variant, env) ==
    /\ epc = "idle"
    /\ einput' = t
    /\ IF LoadConfigError(variant, env) # NoError
       THEN /\ eresult' = Rejected(MakeError("Error", LoadConfigError(variant, env)))
            /\ epc' = "done"
            /\ UNCHANGED <<timer, deadline>>
       ELSE /\ timer' = "armed"
            /\ deadline' = now + DEFAULT_EMBEDDING_TIMEOUT
            /\ epc' = "awaitFetch"
            /\ UNCHANGED eresult
    /\ UNCHANGED <<now, estatus>>
    /\ UNCHANGED <<chunkerVars, toolVars, concVars, serverVars>>

\* the response headers arrive: fetch resolves and the timer is cleared
FetchResolves(status) ==
    /\ epc = "awaitFetch"
    /\ estatus' = status
    /\ timer' = "cleared"
    /\ epc' = IF ResponseOk(status) THEN "awaitJson" ELSE "awaitErrorJson"
    /\ UNCHANGED <<einput, deadline, now, eresult>>
    /\ UNCHANGED <<chunkerVars, toolVars, concVars, serverVars>>

\* fetch rejects with a network error: control goes to the catch block
FetchRejects ==
    /\ epc = "awaitFetch"
    /\ eresult' = Rejected(CatchError(MakeError("TypeError", "fetch failed")))
    /\ epc' = "done"
    /\ UNCHANGED <<einput, timer, deadline, now, estatus>>
    /\ UNCHANGED <<chunkerVars, toolVars, concVars, serverVars>>

\* the timer fires: controller.abort(); a pending fetch rejects with an
\* AbortError
TimerFires ==
    /\ timer = "armed"
    /\ now = deadline
    /\ timer' = "fired"
    /\ IF epc = "awaitFetch"
       THEN /\ eresult' = Rejected(CatchError(MakeError("AbortError", "This operation was aborted")))
            /\ epc' = "done"
       ELSE UNCHANGED <<eresult, epc>>
    /\ UNCHANGED <<einput, deadline, now, estatus>>
    /\ UNCHANGED <<chunkerVars, toolVars, concVars, serverVars>>

\* the body of an OK response has been read (or its read failed)
BodyArrives(body) ==
    /\ epc = "awaitJson"
    /\ eresult' = EmbeddingOf(body)
    /\ epc' = "done"
    /\ UNCHANGED <<einput, timer, deadline, now, estatus>>
    /\ UNCHANGED <<chunkerVars, toolVars, concVars, serverVars>>

\* the body of a non-OK response has been read (or its read failed)
ErrorBodyArrives(body) ==
    /\ epc = "awaitErrorJson"
    /\ eresult' = ApiError(estatus, body)
    /\ epc' = "done"
    /\ UNCHANGED <<einput, timer, deadline, now, estatus>>
    /\ UNCHANGED <<chunkerVars, toolVars, concVars, serverVars>>

\* time passes while the call is pending or its timer is armed, never past
\* the deadline of an armed timer
Tick ==
    /\ epc # "idle"
    /\ epc # "done" \/ timer = "armed"
    /\ now < MaxClock
    /\ timer = "armed" => now < deadline
    /\ now' = IF timer = "armed" THEN Min(now + TickMs, deadline)
              ELSE Min(now + TickMs, MaxClock)
    /\ UNCHANGED <<epc, einput, timer, deadline, estatus, eresult>>
    /\ UNCHANGED <<chunkerVars, toolVars, concVars, serverVars>>

NextEmbed ==
    \/ \E t \in EmbedInputs, variant \in ConfigVariants, env \in Envs :
            GetEmbedding(t, variant, env)
    \/ \E status \in Statuses : FetchResolves(status)
    \/ FetchRejects
    \/ TimerFires
    \/ \E body \in OkBodies : BodyArrives(body)
    \/ \E body \in ErrorBodies : ErrorBodyArrives(body)
    \/ Tick

SpecEmbed == Init /\ [][NextEmbed]_vars

----------------------------------------------------------------------------
(* Concurrent chunk_document invocations.  Each invocation has the locals   *)
(* of its own handler call; the module-level chunkRepository holds only the *)
(* configuration.  The steps are those of the handler above, on a record.   *)

ConcRawParams ==
    {[content |-> WordText(2), documentId |-> "doc1", chunkSize |-> 1, chunkOverlap |-> 0],
     [content |-> WordText(2), documentId |-> "doc2", chunkSize |-> 2, chunkOverlap |-> 1],
     [content |-> WordText(1), documentId |-> "doc3", chunkSize |-> 3]}

\* the handler from its call to its first await (or its return)
HandlerInvoked(raw) ==
    LET p == ChunkDocumentDefaults(raw)
        err == ConstructorError(p.chunkSize, p.chunkOverlap)
        cs == IF err = NoError
              THEN chunk([chunkSize |-> p.chunkSize, chunkOverlap |-> p.chunkOverlap],
                         p.content, OrEmpty(p, "metadata"))
              ELSE <<>>
        h == [HandlerIdle EXCEPT !.params = p, !.hchunks = cs]
    IN  IF err # NoError
        THEN [h EXCEPT !.hpc = "done", !.result = ChunkFailure(p.documentId, err)]
        ELSE IF Len(cs) = 0
        THEN [h EXCEPT !.hpc = "done", !.result = ChunkSuccess(p.documentId, 0, <<>>)]
        ELSE [h EXCEPT !.hpc = "awaitEmbedding", !.hk = 1,
                       !.requests = <<EmbedRequest(cs[1].content)>>]

\* getEmbedding of the current chunk settles
HandlerEmbedded(h, out) ==
    IF out.kind = "resolved"
    THEN [h EXCEPT !.hpc = "awaitStore",
                   !.requests = @ \o <<[kind |-> "embedded", value |-> out.value],
                                       [kind |-> "store",
                                        body |-> StoreParams(h.hchunks[h.hk], out.value,
                                                             h.params)]>>]
    ELSE [h EXCEPT !.hpc = "done",
                   !.requests = Append(@, [kind |-> "embedFailed", error |-> out.error]),
                   !.result = ChunkFailure(h.params.documentId, out.error)]

\* storeChunk of the current chunk settles
HandlerStored(h, ids, answer) ==
    LET stored == StoreChunkResult(answer)
        pushed == PushChunkId(ids, stored)
    IN  IF stored.kind = "rejected"
        THEN [h EXCEPT !.hpc = "done",
                       !.requests = Append(@, [kind |-> "storeFailed", error |-> stored.error]),
                       !.result = ChunkFailure(h.params.documentId, stored.error)]
        ELSE IF h.hk < Len(h.hchunks)
        THEN [h EXCEPT !.hpc = "awaitEmbedding", !.hk = @ + 1, !.chunkIds = pushed,
                       !.requests = @ \o <<[kind |-> "stored", id |-> stored],
                                           EmbedRequest(h.hchunks[h.hk + 1].content)>>]
        ELSE [h EXCEPT !.hpc = "done", !.chunkIds = pushed,
                       !.requests = Append(@, [kind |-> "stored", id |-> stored]),
                       !.result = ChunkSuccess(h.params.documentId, Len(h.hchunks), pushed)]

\* variant: chunkIds declared at module level, one array for all invocations
AfterStoreSharedIds(all, i, answer) ==
    LET shared == HandlerStored(all[i], all[i].chunkIds, answer).chunkIds
    IN  [j \in DOMAIN all |->
            IF j = i THEN HandlerStored(all[i], all[i].chunkIds, answer)
            ELSE [all[j] EXCEPT !.chunkIds = shared]]

\* the invocations after the store of invocation i settled: chunkIds is a
\* local of the handler call, the other invocations are left as they were
AfterStore(all, i, answer) ==
    [all EXCEPT ![i] = HandlerStored(all[i], all[i].chunkIds, answer)]

ConcInvoke(i, raw) ==
    /\ conc[i].hpc = "idle"
    /\ conc' = [conc EXCEPT ![i] = HandlerInvoked(raw)]
    /\ UNCHANGED <<chunkerVars, toolVars, embedVars, serverVars>>

ConcEmbeddingSettles(i, out) ==
    /\ conc[i].hpc = "awaitEmbedding"
    /\ conc' = [conc EXCEPT ![i] = HandlerEmbedded(conc[i], out)]
    /\ UNCHANGED <<chunkerVars, toolVars, embedVars, serverVars>>

ConcStoreSettles(i, answer) ==
    /\ conc[i].hpc = "awaitStore"
    /\ conc' = AfterStore(conc, i, answer)
    /\ UNCHANGED <<chunkerVars, toolVars, embedVars, serverVars>>

\* what the backend may answer to the store of invocation i's current chunk
ConcStoreOutcomes(i) == BackendOutcomes(IF conc[i].hk >= 1 THEN conc[i].hk - 1 ELSE 0)

NextConc ==
    \/ \E i \in Invocations, raw \in ConcRawParams : ConcInvoke(i, raw)
    \/ \E i \in Invocations, out \in EmbeddingOutcomes : ConcEmbeddingSettles(i, out)
    \/ \E i \in Invocations : \E answer \in ConcStoreOutcomes(i) : ConcStoreSettles(i, answer)

SpecConc == Init /\ [][NextConc]_vars

----------------------------------------------------------------------------
(* Server start-up and shutdown (src/dist/server.js, src/dist/index.js) *)

MaxRequests == 3    \* most tool calls the server accepts in a run

ToolNames == {"chunk_document", "search_chunks", "filter_metadata"}
RequestNames == ToolNames \cup {"unknown_tool"}

\* variant: the server connected before the last tool is registered
MainStepsConnectEarly ==
    <<"newServer", "tool:chunk_document", "tool:search_chunks", "newTransport",
      "connect", "tool:filter_metadata", "onSigint">>

\* the statements of main(), in program order
MainSteps ==
    <<"newServer", "tool:chunk_document", "tool:search_chunks", "tool:filter_metadata",
      "newTransport", "connect", "onSigint">>

Running == exitCode = "running" /\ shutdown = "none"

AtStep(stmt) == Running /\ mpc >= 1 /\ mpc <= Len(MainSteps) /\ MainSteps[mpc] = stmt

\* the top level of a tool module: loadConfig(), then config.api.baseUrl is
\* read to build the repository; the message of the error thrown, or NoError
ModuleInitError(variant, env) ==
    IF LoadConfigError(variant, env) # NoError THEN LoadConfigError(variant, env)
    ELSE IF "api" \notin ConfigKeys(variant)
    THEN "Cannot read properties of undefined (reading 'baseUrl')"
    ELSE NoError

\* index.js imports server.js and with it the three tool modules, before
\* main() is called; an error thrown there ends the process with code 1
ImportModules(variant, env) ==
    /\ Running
    /\ mpc = 0
    /\ IF ModuleInitError(variant, env) # NoError
       THEN exitCode' = "1" /\ UNCHANGED mpc
       ELSE mpc' = 1 /\ UNCHANGED exitCode
    /\ UNCHANGED <<registered, transport, connected, sigintHandler, shutdown, accepted>>
    /\ UNCHANGED <<chunkerVars, toolVars, embedVars, concVars>>

\* new McpServer(...)
CreateServer ==
    /\ AtStep("newServer")
    /\ mpc' = mpc + 1
    /\ UNCHANGED <<registered, transport, connected, sigintHandler, shutdown, exitCode,
                   accepted>>
    /\ UNCHANGED <<chunkerVars, toolVars, embedVars, concVars>>

\* server.tool(name, schema, handler)
RegisterTool(name) ==
    /\ \/ name = "chunk_document" /\ AtStep("tool:chunk_document")
       \/ name = "search_chunks" /\ AtStep("tool:search_chunks")
       \/ name = "filter_metadata" /\ AtStep("tool:filter_metadata")
    /\ registered' = Append(registered, name)
    /\ mpc' = mpc + 1
    /\ UNCHANGED <<transport, connected, sigintHandler, shutdown, exitCode, accepted>>
    /\ UNCHANGED <<chunkerVars, toolVars, embedVars, concVars>>

\* new StdioServerTransport()
CreateTransport ==
    /\ AtStep("newTransport")
    /\ transport' = "created"
    /\ mpc' = mpc + 1
    /\ UNCHANGED <<registered, connected, sigintHandler, shutdown, exitCode, accepted>>
    /\ UNCHANGED <<chunkerVars, toolVars, embedVars, concVars>>

\* server.connect(transport) is called: the transport starts to read stdin,
\* and main() waits for the promise
ConnectCalled ==
    /\ AtStep("connect")
    /\ transport = "created"
    /\ transport' = "started"
    /\ UNCHANGED <<mpc, registered, connected, sigintHandler, shutdown, exitCode, accepted>>
    /\ UNCHANGED <<chunkerVars, toolVars, embedVars, concVars>>

\* the promise of server.connect resolves: main() goes on
ConnectResolves ==
    /\ AtStep("connect")
    /\ transport = "started"
    /\ ~connected
    /\ connected' = TRUE
    /\ mpc' = mpc + 1
    /\ UNCHANGED <<registered, transport, sigintHandler, shutdown, exitCode, accepted>>
    /\ UNCHANGED <<chunkerVars, toolVars, embedVars, concVars>>

\* the promise of server.connect rejects: main() rejects, and the catch of
\* index.js exits with code 1
ConnectRejects ==
    /\ AtStep("connect")
    /\ transport = "started"
    /\ ~connected
    /\ exitCode' = "1"
    /\ UNCHANGED <<mpc, registered, transport, connected, sigintHandler, shutdown, accepted>>
    /\ UNCHANGED <<chunkerVars, toolVars, embedVars, concVars>>

\* process.on("SIGINT", listener); main() returns
InstallSigint ==
    /\ AtStep("onSigint")
    /\ sigintHandler' = TRUE
    /\ mpc' = mpc + 1
    /\ UNCHANGED <<registered, transport, connected, shutdown, exitCode, accepted>>
    /\ UNCHANGED <<chunkerVars, toolVars, embedVars, concVars>>

\* a tools/call message is read from the started transport
AcceptRequest(name) ==
    /\ Running
    /\ transport = "started"
    /\ Len(accepted) < MaxRequests
    /\ accepted' = Append(accepted, [name |-> name,
                                    known |-> {registered[k] : k \in 1..Len(registered)}])
    /\ UNCHANGED <<mpc, registered, transport, connected, sigintHandler, shutdown, exitCode>>
    /\ UNCHANGED <<chunkerVars, toolVars, embedVars, concVars>>

\* SIGINT with the listener installed: the listener runs up to
\* transport.close()
SigintCloses ==
    /\ Running
    /\ sigintHandler
    /\ transport' = "closed"
    /\ shutdown' = "closing"
    /\ UNCHANGED <<mpc, registered, connected, sigintHandler, exitCode, accepted>>
    /\ UNCHANGED <<chunkerVars, toolVars, embedVars, concVars>>

\* the listener goes on to process.exit(0)
SigintExits ==
    /\ shutdown = "closing"
    /\ shutdown' = "exited"
    /\ exitCode' = "0"
    /\ UNCHANGED <<mpc, registered, transport, connected, sigintHandler, accepted>>
    /\ UNCHANGED <<chunkerVars, toolVars, embedVars, concVars>>

\* SIGINT without a listener: the default action ends the process
SigintKills ==
    /\ Running
    /\ ~sigintHandler
    /\ exitCode' = "signal"
    /\ UNCHANGED <<mpc, registered, transport, connected, sigintHandler, shutdown, accepted>>
    /\ UNCHANGED <<chunkerVars, toolVars, embedVars, concVars>>

NextServer ==
    \/ \E variant \in ConfigVariants, env \in Envs : ImportModules(variant, env)
    \/ CreateServer
    \/ \E name \in ToolNames : RegisterTool(name)
    \/ CreateTransport
    \/ ConnectCalled
    \/ ConnectResolves
    \/ ConnectRejects
    \/ InstallSigint
    \/ \E name \in RequestNames : AcceptRequest(name)
    \/ SigintCloses
    \/ SigintExits
    \/ SigintKills

SpecServer == Init /\ [][NextServer]_vars

----------------------------------------------------------------------------
(* Vocabulary of the properties *)

Constructed == chunker # NoValue

\* the configuration the data model calls valid
ValidConfig ==
    /\ Constructed
    /\ chunker.chunkSize > 0
    /\ 0 <= chunker.chunkOverlap
    /\ chunker.chunkOverlap < chunker.chunkSize

Returned == pc = "done" /\ outcome = "returned"

IsWs(str, i) == str[i] \in Whitespace

\* first positions of the maximal runs of non-whitespace characters
RunStarts(str) ==
    {i \in 1..Len(str) : ~IsWs(str, i) /\ (i = 1 \/ IsWs(str, i - 1))}

RunEnd(str, s) ==
    CHOOSE e \in s..Len(str) :
        /\ \A j \in s..e : ~IsWs(str, j)
        /\ e = Len(str) \/ IsWs(str, e + 1)

NthStart(str, k) ==
    CHOOSE s \in RunStarts(str) : Cardinality({j \in RunStarts(str) : j < s}) = k - 1

\* the maximal runs of non-whitespace characters of str, left to right
MaximalRuns(str) ==
    [k \in 1..Cardinality(RunStarts(str)) |->
        SubSeq(str, NthStart(str, k), RunEnd(str, NthStart(str, k)))]

AllWhitespace(str) == \A i \in 1..Len(str) : IsWs(str, i)

\* seq without its first k elements (empty when it has fewer)
DropFirst(seq, k) == SubSeq(seq, Min(k, Len(seq)) + 1, Len(seq))

\* tokens of chunk 0, then the tokens of every later chunk minus its first k
RECURSIVE Reassemble(_, _, _)
Reassemble(cs, i, k) ==
    IF i > Len(cs) THEN <<>>
    ELSE (IF i = 1 THEN MaximalRuns(cs[i].content)
          ELSE DropFirst(MaximalRuns(cs[i].content), k))
         \o Reassemble(cs, i + 1, k)

SynthKeys == {"chunk_index", "word_count"}

ScenarioText == <<"a", " ", "b", " ", "c", " ", "d", " ", "e">>

\* chunkSize - chunkOverlap of the constructed chunker
Step == chunker.chunkSize - chunker.chunkOverlap

\* ceil(n / d) for d >= 1
CeilDiv(n, d) == (n + d - 1) \div d

\* 0-based token positions [from, to) that chunk number i (from 1) covers
\* when chunk k+1 starts Step tokens after chunk k
WindowStart(i) == (i - 1) * Step
WindowEnd(i) ==
    IF WindowStart(i) + chunker.chunkSize <= Len(tokens)
    THEN WindowStart(i) + chunker.chunkSize
    ELSE Len(tokens)
WindowTokens(i) == [j \in 1..(WindowEnd(i) - WindowStart(i)) |-> tokens[WindowStart(i) + j]]

\* content and index of every chunk, in order
ContentsAndIndices ==
    [i \in 1..Len(chunks) |-> <<chunks[i].content, chunks[i].index>>]

----------------------------------------------------------------------------
(* Properties *)

\* C1: round trip. For a valid config, the tokens of chunk 0 followed by the
\* tokens of every later chunk after dropping its first chunkOverlap tokens
\* (all of them when it has fewer) are exactly the tokens of the text.
C1_RoundTrip ==
    (Returned /\ ValidConfig) =>
        Reassemble(chunks, 1, chunker.chunkOverlap) = MaximalRuns(text)

\* a call whose last chunk is shorter than the overlap, after at least two others
C1_Witness ==
    /\ Returned /\ ValidConfig
    /\ chunker.chunkOverlap >= 2
    /\ Len(chunks) >= 3
    /\ chunks[Len(chunks)].metadata["word_count"] < chunker.chunkOverlap

\* C2: for a valid config, a text of 1..chunkSize tokens yields exactly one
\* chunk, with index 0, whose content is all the tokens.
C2_SingleChunk ==
    (Returned /\ ValidConfig /\ Len(tokens) >= 1 /\ Len(tokens) <= chunker.chunkSize) =>
        /\ Len(chunks) = 1
        /\ chunks[1].index = 0
        /\ chunks[1].content = Join(tokens)

\* C3: scenario B. chunkSize 3, chunkOverlap 1 and the text "a b c d e" give
\* exactly the chunks "a b c" (index 0) and "c d e" (index 1).
C3_ScenarioB ==
    (Returned /\ Constructed /\ text = ScenarioText
        /\ chunker = [chunkSize |-> 3, chunkOverlap |-> 1]) =>
        [i \in 1..Len(chunks) |-> <<chunks[i].content, chunks[i].index>>]
            = << <<Join(<< <<"a">>, <<"b">>, <<"c">> >>), 0>>,
                 <<Join(<< <<"c">>, <<"d">>, <<"e">> >>), 1>> >>

\* C4: a construction with chunkOverlap >= chunkSize throws and yields no
\* instance.
C4_OverlapRejected ==
    (options # NoValue /\ options.chunkOverlap >= options.chunkSize) =>
        (ctorError # NoError /\ chunker = NoValue)

\* the construction of scenario E (5, 5) has failed
C4_Witness ==
    /\ options = [chunkSize |-> 5, chunkOverlap |-> 5]
    /\ ctorError # NoError
    /\ chunker = NoValue

\* C5: a construction with chunkSize <= 0 throws, whatever chunkOverlap is.
C5_SizeRejected ==
    (options # NoValue /\ options.chunkSize <= 0) =>
        (ctorError # NoError /\ chunker = NoValue)

\* a non-positive size with a smaller overlap: rejected by the second check
C5_Witness ==
    /\ options # NoValue
    /\ options.chunkSize <= 0
    /\ options.chunkOverlap < options.chunkSize
    /\ ctorError = "Chunk size must be a positive number."

\* C6: a construction with chunkSize > 0 and 0 <= chunkOverlap < chunkSize
\* succeeds: nothing is thrown and the instance holds the two values.
C6_ValidAccepted ==
    (options # NoValue /\ options.chunkSize > 0 /\ 0 <= options.chunkOverlap
        /\ options.chunkOverlap < options.chunkSize) =>
        /\ ctorError = NoError
        /\ chunker = [chunkSize |-> options.chunkSize,
                      chunkOverlap |-> options.chunkOverlap]

\* the smallest valid configuration (1, 0) has been constructed
C6_Witness ==
    /\ options = [chunkSize |-> 1, chunkOverlap |-> 0]
    /\ ctorError = NoError
    /\ chunker = [chunkSize |-> 1, chunkOverlap |-> 0]

\* C7: on a constructed chunker, chunk() never throws: a finished call has
\* returned, and what it returned is a sequence of chunks (possibly empty).
C7_ChunkNeverThrows ==
    Constructed =>
        /\ outcome # "threw"
        /\ pc = "done" =>
              /\ outcome = "returned"
              /\ \A i \in 1..Len(chunks) :
                    DOMAIN chunks[i] = {"content", "index", "metadata"}

\* the call on the empty string has returned the empty sequence
C7_Witness ==
    /\ Constructed
    /\ pc = "done"
    /\ text = <<>>
    /\ outcome = "returned"
    /\ chunks = <<>>

\* C8: the tokens are the maximal runs of non-whitespace characters of the
\* text (none of them empty), and the empty string and every all-whitespace
\* string yield zero chunks.
C8_Tokens ==
    (Constructed /\ pc # "idle") =>
        /\ tokens = MaximalRuns(text)
        /\ \A i \in 1..Len(tokens) : Len(tokens[i]) > 0
        /\ AllWhitespace(text) => (pc = "done" /\ chunks = <<>>)

\* a call on a text of whitespace only has returned no chunk
C8_Witness ==
    /\ Returned
    /\ Len(text) >= 2
    /\ AllWhitespace(text)
    /\ chunks = <<>>

\* C9: for a valid config, the chunk at position i of the returned sequence
\* has index i (positions counted from 0).
C9_Indices ==
    (Returned /\ ValidConfig) =>
        \A i \in 1..Len(chunks) : chunks[i].index = i - 1

\* a call that returned at least three chunks
C9_Witness ==
    /\ Returned /\ ValidConfig
    /\ Len(chunks) >= 3

\* C10: a chunk's metadata has the keys of the base metadata plus chunk_index
\* and word_count; a base key other than those two keeps the caller's value;
\* chunk_index and word_count hold the synthesized values also when the base
\* metadata has such a key.
C10_Metadata ==
    (Constructed /\ pc # "idle") =>
        \A i \in 1..Len(chunks) :
            LET md == chunks[i].metadata
            IN  /\ DOMAIN md = (DOMAIN metadata) \cup SynthKeys
                /\ \A k \in (DOMAIN metadata) \ SynthKeys : md[k] = metadata[k]
                /\ md["chunk_index"] = chunks[i].index
                /\ md["word_count"] = Len(MaximalRuns(chunks[i].content))

\* a returned chunk whose base metadata had a key of its own and both
\* synthesized keys
C10_Witness ==
    /\ Returned
    /\ Len(chunks) >= 2
    /\ DOMAIN metadata = {"source", "chunk_index", "word_count"}
    /\ chunks[2].metadata["chunk_index"] = 1
    /\ chunks[2].metadata["source"] = metadata["source"]

\* C11: for a valid config every iteration advances the cursor by
\* chunkSize - chunkOverlap >= 1, and the loop has ended once
\* ceil(tokenCount / (chunkSize - chunkOverlap)) iterations are done (one
\* chunk is pushed per iteration).
C11_Progress ==
    (ValidConfig /\ pc # "idle") =>
        /\ Step >= 1
        /\ currentTokenStartIndex = Len(chunks) * Step
        /\ Len(chunks) <= CeilDiv(Len(tokens), Step)
        /\ Len(chunks) = CeilDiv(Len(tokens), Step) => pc = "done"
        /\ pc = "loop" => Len(chunks) < CeilDiv(Len(tokens), Step)

\* a loop that ended after exactly the bound, with a step and an overlap
\* above one, on a token count the step does not divide
C11_Witness ==
    /\ Returned /\ ValidConfig
    /\ Step >= 2
    /\ chunker.chunkOverlap >= 1
    /\ Len(tokens) % Step # 0
    /\ Len(chunks) = CeilDiv(Len(tokens), Step)
    /\ Len(chunks) >= 3

\* C12: for a valid config, chunk k+1 begins exactly chunkSize - chunkOverlap
\* tokens after chunk k, also for the final pair when the final chunk is
\* short: chunk number i holds the tokens from (i-1) * step on, so the start
\* positions strictly increase with the index.
C12_UniformOverlap ==
    (ValidConfig /\ pc # "idle") =>
        \A i \in 1..Len(chunks) :
            /\ WindowStart(i) < Len(tokens)
            /\ MaximalRuns(chunks[i].content) = WindowTokens(i)
            /\ i > 1 => WindowStart(i) = WindowStart(i - 1) + Step
                        /\ WindowStart(i) > WindowStart(i - 1)

\* a returned sequence whose final chunk is short and still starts one step
\* after a full chunk, with distinct tokens
C12_Witness ==
    /\ Returned /\ ValidConfig
    /\ text = ScenarioText
    /\ chunker.chunkOverlap = 1
    /\ chunker.chunkSize = 3
    /\ Len(chunks) = 3
    /\ chunks[3].content = <<"e">>
    /\ chunks[2].content = Join(<< <<"c">>, <<"d">>, <<"e">> >>)

\* C13: for a valid config, every returned chunk other than the last one has
\* exactly chunkSize tokens.
C13_OnlyLastShort ==
    (Returned /\ ValidConfig) =>
        \A i \in 1..(Len(chunks) - 1) :
            chunks[i].metadata["word_count"] = chunker.chunkSize

\* C15: a negative chunkOverlap is accepted whenever chunkSize > 0; chunk()
\* then advances by more than chunkSize per step, and for a text with more
\* than chunkSize tokens some token position lies in no returned chunk.
C15_NegativeOverlapGaps ==
    /\ (options # NoValue /\ options.chunkOverlap < 0 /\ options.chunkSize > 0) =>
            (ctorError = NoError /\ Constructed)
    /\ (Constructed /\ chunker.chunkOverlap < 0 /\ pc # "idle") =>
            /\ Step > chunker.chunkSize
            /\ currentTokenStartIndex = Len(chunks) * Step
            /\ \A i \in 1..Len(chunks) :
                  MaximalRuns(chunks[i].content) = WindowTokens(i)
    /\ (Returned /\ Constructed /\ chunker.chunkOverlap < 0
            /\ Len(tokens) > chunker.chunkSize) =>
            \E j \in 0..(Len(tokens) - 1) :
                \A i \in 1..Len(chunks) : j < WindowStart(i) \/ j >= WindowEnd(i)

\* a call with a negative overlap that returned two chunks and lost the
\* token between them
C15_Witness ==
    /\ Returned /\ Constructed
    /\ chunker = [chunkSize |-> 2, chunkOverlap |-> 0 - 1]
    /\ text = ScenarioText
    /\ ContentsAndIndices = << <<Join(<< <<"a">>, <<"b">> >>), 0>>,
                               <<Join(<< <<"d">>, <<"e">> >>), 1>> >>

\* C16: word_count of every chunk is end - start, the number of tokens of its
\* content, and chunk_index is its index; the text "one" with chunkSize 500
\* and chunkOverlap 50 gives a single chunk with word_count 1.
C16_Counts ==
    (Constructed /\ pc # "idle") =>
        /\ \A i \in 1..Len(chunks) :
              /\ chunks[i].metadata["word_count"] = WindowEnd(i) - WindowStart(i)
              /\ chunks[i].metadata["word_count"] = Len(MaximalRuns(chunks[i].content))
              /\ chunks[i].metadata["chunk_index"] = chunks[i].index
        /\ (Returned /\ chunker = [chunkSize |-> 500, chunkOverlap |-> 50]
                /\ Len(tokens) = 1) =>
              /\ Len(chunks) = 1
              /\ chunks[1].index = 0
              /\ chunks[1].content = tokens[1]
              /\ chunks[1].metadata["word_count"] = 1

\* scenario D on a one-word text of two characters
C16_Witness ==
    /\ Returned
    /\ chunker = [chunkSize |-> 500, chunkOverlap |-> 50]
    /\ text = <<"a", "a">>
    /\ Len(chunks) = 1
    /\ chunks[1].metadata["word_count"] = 1

\* C17: scenario A. chunkSize 2, chunkOverlap 0 and the text "a b c d e" give
\* exactly the chunks "a b" (index 0), "c d" (index 1) and "e" (index 2).
C17_ScenarioA ==
    (Returned /\ Constructed /\ text = ScenarioText
        /\ chunker = [chunkSize |-> 2, chunkOverlap |-> 0]) =>
        ContentsAndIndices
            = << <<<<"a", " ", "b">>, 0>>, <<<<"c", " ", "d">>, 1>>, <<<<"e">>, 2>> >>

\* scenario A has returned
C17_Witness ==
    /\ Returned
    /\ text = ScenarioText
    /\ chunker = [chunkSize |-> 2, chunkOverlap |-> 0]
    /\ Len(chunks) = 3

\* C14: chunk() is pure. A call leaves chunkSize and chunkOverlap of the
\* instance and the caller's metadata map unchanged, and a second call on the
\* same instance with the same text and metadata returns the same chunks.
C14_Pure ==
    /\ [][pc' # "idle" =>
            /\ chunker' = chunker
            /\ options' = options
            /\ pc # "idle" => (metadata' = metadata /\ text' = text)]_vars
    /\ [](previous # NoValue =>
            /\ previous.text = text /\ previous.metadata = metadata
            /\ pc = "done" => (outcome = "returned" /\ chunks = previous.chunks))

\* a second call that returned the same three or more chunks as the first,
\* with a caller's metadata that holds one of the synthesized keys
C14_Witness ==
    /\ Returned
    /\ previous # NoValue
    /\ Len(previous.chunks) >= 3
    /\ chunks = previous.chunks
    /\ DOMAIN metadata = {"source", "word_count"}

----------------------------------------------------------------------------
(* Properties of the tool layer *)

ToolSucceeded == hpc = "done" /\ ~Has(result, "isError")

\* the chunks the chunker returns for the validated parameters
ExpectedChunks ==
    chunk([chunkSize |-> params.chunkSize, chunkOverlap |-> params.chunkOverlap],
          params.content, OrEmpty(params, "metadata"))

\* the IDs in the store responses of a log, in order, leaving out the
\* responses without an ID or with an empty one
RECURSIVE ReturnedIds(_)
ReturnedIds(log) ==
    IF Len(log) = 0 THEN <<>>
    ELSE LET e == log[1]
         IN  (IF e.kind = "stored" /\ e.id.defined /\ e.id.value # <<>>
              THEN <<e.id.value>> ELSE <<>>) \o ReturnedIds(Tail(log))

\* the IDs in the store responses of a log, in order, leaving out only the
\* responses without an ID
RECURSIVE DefinedIds(_)
DefinedIds(log) ==
    IF Len(log) = 0 THEN <<>>
    ELSE LET e == log[1]
         IN  (IF e.kind = "stored" /\ e.id.defined THEN <<e.id.value>> ELSE <<>>)
                 \o DefinedIds(Tail(log))

\* s is t with some of its elements left out
RECURSIVE IsSubsequence(_, _)
IsSubsequence(s, t) ==
    IF Len(s) = 0 THEN TRUE
    ELSE IF Len(t) = 0 THEN FALSE
    ELSE IF s[1] = t[1] THEN IsSubsequence(Tail(s), Tail(t))
    ELSE IsSubsequence(s, Tail(t))

\* a store response of the log carries no ID (storeChunk resolved to undefined)
SomeStoreUndefined ==
    \E j \in 1..Len(requests) : requests[j].kind = "stored" /\ ~requests[j].id.defined

EveryStoreReturnedId ==
    \A j \in 1..Len(requests) :
        requests[j].kind = "stored" =>
            (requests[j].id.defined /\ requests[j].id.value # <<>>)

\* the caller's filter of the current search_chunks / filter_metadata call
CallerFilter == OrEmpty(params, "metadataFilter")

\* the pair (k, v) of the caller's filter is in the request body
PairPresent(body, k, v) ==
    \/ Has(body, "p_filter_metadata") /\ Has(body["p_filter_metadata"], k)
        /\ body["p_filter_metadata"][k] = v
    \/ Has(body, "metadataFilter") /\ Has(body["metadataFilter"], k)
        /\ body["metadataFilter"][k] = v
    \/ k = "documentId" /\ Has(body, "p_document_id") /\ body["p_document_id"] = v

\* C18: one chunk_document invocation handles the chunks in index order: for
\* chunk k the embedding is requested, then obtained, then the store is
\* requested with that chunk's content, embedding, index and metadata, then
\* the store completes, and only then the embedding of chunk k+1 is requested.
C18_Pipeline ==
    tool = "chunk_document" =>
        /\ hchunks = ExpectedChunks \/ Has(result, "isError")
        /\ \A j \in 1..Len(requests) :
            LET k == ((j - 1) \div 4) + 1
                phase == (j - 1) % 4
                e == requests[j]
            IN  /\ k <= Len(hchunks)
                /\ hchunks[k].index = k - 1
                /\ phase = 0 => e = [kind |-> "embed", input |-> hchunks[k].content]
                /\ phase = 1 => \/ e.kind = "embedded"
                                \/ e.kind = "embedFailed" /\ j = Len(requests)
                /\ phase = 2 =>
                      /\ e.kind = "store"
                      /\ e.body.content = hchunks[k].content
                      /\ e.body.embedding = requests[j - 1].value
                      /\ e.body.chunkIndex = hchunks[k].index
                      /\ e.body.metadata = hchunks[k].metadata
                      /\ e.body.documentId = params.documentId
                /\ phase = 3 => \/ e.kind = "stored"
                                \/ e.kind = "storeFailed" /\ j = Len(requests)

\* an invocation that stored three chunks with a caller's metadata, the
\* embeddings of the first two chunks being different
C18_Witness ==
    /\ tool = "chunk_document"
    /\ ToolSucceeded
    /\ Len(hchunks) = 3
    /\ Len(requests) = 12
    /\ Has(params, "metadata")
    /\ requests[3].body.embedding # requests[7].body.embedding
    /\ requests[11].body.chunkIndex = 2

\* C19 as claimed: a successful chunk_document response has chunks equal to
\* the number of chunks the chunker produced and one ID per chunk in chunkIds.
C19_OneIdPerChunk ==
    (tool = "chunk_document" /\ ToolSucceeded) =>
        /\ result.text.chunks = Len(ExpectedChunks)
        /\ Len(result.text.chunkIds) = result.text.chunks

\* C19 as amended: chunks is the number of chunks the chunker produced, and
\* chunkIds holds, in chunk index order, IDs the stores returned: a chunk
\* whose store resolved to undefined is left out and every chunk whose store
\* resolved to a non-empty ID is present, so chunkIds has at most as many
\* entries as chunks, fewer when a store resolved to undefined, and as many
\* when every store returned a non-empty ID.
C19_ReturnedIds ==
    (tool = "chunk_document" /\ ToolSucceeded) =>
        /\ result.text.success = TRUE
        /\ result.text.documentId = params.documentId
        /\ result.text.chunks = Len(ExpectedChunks)
        /\ IsSubsequence(result.text.chunkIds, DefinedIds(requests))
        /\ IsSubsequence(ReturnedIds(requests), result.text.chunkIds)
        /\ Len(result.text.chunkIds) <= result.text.chunks
        /\ SomeStoreUndefined => Len(result.text.chunkIds) < result.text.chunks
        /\ EveryStoreReturnedId => Len(result.text.chunkIds) = result.text.chunks

\* a success of the compiled handler with three chunks: the store of the
\* second resolved to undefined and is left out, the store of the third
\* resolved to an empty ID
C19_Witness ==
    /\ tool = "chunk_document"
    /\ build = "dist"
    /\ ToolSucceeded
    /\ result.text.chunks = 3
    /\ Len(chunkIds) = 3
    /\ ~chunkIds[2].defined
    /\ result.text.chunkIds = <<IdOf(0), <<>>>>

\* C20: every key/value pair of the metadata filter given to search_chunks or
\* filter_metadata is present in the request sent to the backend.
C20_FilterPassedThrough ==
    tool \in {"search_chunks", "filter_metadata"} =>
        \A j \in 1..Len(requests) :
            requests[j].kind = "rpc" =>
                \A k \in DOMAIN CallerFilter :
                    PairPresent(requests[j].body, k, CallerFilter[k])

\* the value chunkSize tokens joined by single spaces must have
RECURSIVE SpaceJoined(_)
SpaceJoined(toks) ==
    IF Len(toks) = 0 THEN <<>>
    ELSE IF Len(toks) = 1 THEN toks[1]
    ELSE toks[1] \o <<" ">> \o SpaceJoined(Tail(toks))

\* content and index of every chunk of a sequence, in order
ContentsAndIndicesOf(cs) == [i \in 1..Len(cs) |-> <<cs[i].content, cs[i].index>>]

\* C22: the word_count variant and the token_count variant accept and
\* reject the same configs, and for every config both accept and every text
\* they return chunk sequences with the same length, contents and indices.
C22_VariantsAgree ==
    /\ options # NoValue =>
            ((ctorError = NoError) <=>
                (ConstructorErrorTokenCount(options.chunkSize, options.chunkOverlap) = NoError))
    /\ (Returned /\ ConstructorErrorTokenCount(chunker.chunkSize, chunker.chunkOverlap) = NoError) =>
            ContentsAndIndicesOf(chunkTokenCount(chunker, text, metadata)) = ContentsAndIndices

\* C28: for a valid config every returned chunk has at least 1 and at most
\* chunkSize tokens, its content is those tokens, in the order of the text,
\* joined by single spaces, and every token of the text is in some chunk.
C28_ChunkContents ==
    (Returned /\ ValidConfig) =>
        /\ \A i \in 1..Len(chunks) :
              LET n == Len(MaximalRuns(chunks[i].content))
                  from == (i - 1) * Step
              IN  /\ n >= 1
                  /\ n <= chunker.chunkSize
                  /\ from + n <= Len(tokens)
                  /\ chunks[i].content =
                        SpaceJoined([j \in 1..n |-> MaximalRuns(text)[from + j]])
        /\ \A j \in 1..Len(MaximalRuns(text)) :
              \E i \in 1..Len(chunks) :
                  /\ (i - 1) * Step < j
                  /\ j <= (i - 1) * Step + Len(MaximalRuns(chunks[i].content))

\* a call on a text with runs of several whitespace characters that returned
\* two chunks, the first of them full
C28_Witness ==
    /\ Returned /\ ValidConfig
    /\ chunker = [chunkSize |-> 2, chunkOverlap |-> 1]
    /\ Len(chunks) >= 2
    /\ Len(MaximalRuns(chunks[1].content)) = 2
    /\ \E i \in 1..(Len(text) - 1) : IsWs(text, i) /\ IsWs(text, i + 1)

\* the log entries that record a rejected promise
FailureKinds == {"embedFailed", "storeFailed", "rpcFailed"}

\* 0-based indices of the chunks whose store request was answered by a
\* resolved storeChunk among the first n log entries
StoredIndices(n) ==
    {requests[i].body.chunkIndex : i \in {i \in 1..(n - 1) :
        requests[i].kind = "store" /\ requests[i + 1].kind = "stored"}}

\* C23: storeChunk never rejects: whatever the backend answers (non-OK
\* status, empty body, body without an id, unparsable body), the promise
\* resolves, to the ID or to undefined.
C23_StoreNeverRejects ==
    \A j \in 1..Len(requests) : requests[j].kind # "storeFailed"

\* C24: validated chunk_document parameters with chunkOverlap >= chunkSize
\* (also when chunkOverlap is the default 50) give the construction error at
\* once as an error result, success false and isError true, and no embedding
\* request and no store request is made.
C24_OverlapErrorAtOnce ==
    (tool = "chunk_document" /\ params.chunkOverlap >= params.chunkSize) =>
        /\ hpc = "done"
        /\ requests = <<>>
        /\ Has(result, "isError") /\ result.isError = TRUE
        /\ result.text.success = FALSE
        /\ result.text.error
              = "Chunk overlap must be less than chunk size to ensure progression."

\* a call that gave chunkSize 3 only: the overlap defaulted to 50 and the
\* error result came back without a request
C24_Witness ==
    /\ tool = "chunk_document"
    /\ params.chunkSize = 3
    /\ params.chunkOverlap = 50
    /\ hpc = "done"
    /\ requests = <<>>
    /\ Has(result, "isError")

\* C26: when getEmbedding or storeChunk of chunk k rejects, the invocation
\* stops: the chunks whose store resolved are exactly 0..k-1, nothing is
\* requested after the failure (no rollback, no later chunk), and the
\* response is an error result, success false, without any chunk ID.
C26_FailureStops ==
    tool = "chunk_document" =>
        \A j \in 1..Len(requests) :
            requests[j].kind \in {"embedFailed", "storeFailed"} =>
                LET k == (j - 1) \div 4
                IN  /\ j = Len(requests)
                    /\ hpc = "done"
                    /\ StoredIndices(j) = 0..(k - 1)
                    /\ \A i \in 1..j :
                          /\ requests[i].kind = "store" => requests[i].body.chunkIndex <= k
                          /\ requests[i].kind = "embed" => (i - 1) \div 4 <= k
                    /\ Has(result, "isError") /\ result.isError = TRUE
                    /\ result.text.success = FALSE
                    /\ result.text.error = requests[j].error
                    /\ ~Has(result.text, "chunkIds")

\* the store of the third chunk was rejected after two chunks were stored
\* with their IDs
C26_Witness ==
    /\ tool = "chunk_document"
    /\ hpc = "done"
    /\ Len(requests) = 12
    /\ requests[12].kind = "storeFailed"
    /\ chunkIds = <<IdOf(0), IdOf(1)>>
    /\ StoredIndices(12) = {0, 1}
    /\ Has(result, "isError")

\* the failure a finished handler met, if any: the message of the Error
ConstructionFailed ==
    tool = "chunk_document" /\ requests = <<>> /\ params.chunkOverlap >= params.chunkSize
RequestFailed == requests # <<>> /\ requests[Len(requests)].kind \in FailureKinds

\* C27: a handler never rejects. Every failure of the construction, of
\* getEmbedding or of the backend request gives a result with isError true,
\* success false and the message of the error; a result without isError has
\* success true.
C27_NeverRejects ==
    hpc = "done" =>
        /\ Has(result, "text")
        /\ (ConstructionFailed \/ RequestFailed) <=> Has(result, "isError")
        /\ Has(result, "isError") =>
              /\ result.isError = TRUE
              /\ result.text.success = FALSE
              /\ Has(result.text, "error")
              /\ RequestFailed => result.text.error = requests[Len(requests)].error
              /\ ConstructionFailed => result.text.error
                    = "Chunk overlap must be less than chunk size to ensure progression."
        /\ ~Has(result, "isError") => result.text.success = TRUE

\* search_chunks whose backend request failed on an unparsable body
C27_Witness ==
    /\ tool = "search_chunks"
    /\ hpc = "done"
    /\ Len(requests) = 4
    /\ requests[4].kind = "rpcFailed"
    /\ Has(result, "isError")
    /\ result.text.error = "Failed to parse JSON response"

----------------------------------------------------------------------------
(* Properties of getEmbedding, of concurrent invocations and of start-up *)

EmbeddingPending == epc \notin {"idle", "done"}

TimedOutError == MakeError("Error", "Embedding request timed out after 10000ms")

\* C21: a getEmbedding call completes within the timeout: a call that is
\* still pending is at most 10000 ms old whatever the provider does, a
\* finished call has returned a vector or failed with an error, and a timer
\* that fires on a fetch without response fails the call with the timed-out
\* error.
C21_BoundedCompletion ==
    /\ [](EmbeddingPending => now <= DEFAULT_EMBEDDING_TIMEOUT)
    /\ [](epc = "done" => eresult.kind \in {"resolved", "rejected"})
    /\ [][(epc = "awaitFetch" /\ timer' = "fired") =>
            (epc' = "done" /\ eresult' = Rejected(TimedOutError))]_vars

\* C25: once the getEmbedding call has finished, on whatever path, its
\* timeout timer is not armed any more.
C25_TimerCleared ==
    epc = "done" => timer # "armed"

\* the IDs in the store responses of a handler's log, in order
RECURSIVE LogIds(_)
LogIds(log) ==
    IF Len(log) = 0 THEN <<>>
    ELSE (IF log[1].kind = "stored" /\ log[1].id.defined /\ log[1].id.value # <<>>
          THEN <<log[1].id.value>> ELSE <<>>) \o LogIds(Tail(log))

\* the chunkIndex of the store requests of a log, in the order of the log
RECURSIVE StoreOrder(_)
StoreOrder(log) ==
    IF Len(log) = 0 THEN <<>>
    ELSE (IF log[1].kind = "store" THEN <<log[1].body.chunkIndex>> ELSE <<>>)
         \o StoreOrder(Tail(log))

\* C29: concurrent chunk_document invocations are independent. The response
\* of each is what its own parameters and the answers to its own requests
\* give (chunk count of its own document, the IDs of its own stores, the
\* error of its own failed request), and each invocation issues its store
\* requests in increasing chunkIndex order, 0, 1, 2, ..., for its own
\* document, however the invocations interleave.
C29_Independent ==
    \A i \in Invocations :
        LET h == conc[i]
            own == chunk([chunkSize |-> h.params.chunkSize,
                          chunkOverlap |-> h.params.chunkOverlap],
                         h.params.content, OrEmpty(h.params, "metadata"))
        IN  h.hpc # "idle" =>
              /\ StoreOrder(h.requests) = [k \in 1..Len(StoreOrder(h.requests)) |-> k - 1]
              /\ \A j \in 1..Len(h.requests) :
                    h.requests[j].kind = "store" =>
                        /\ h.requests[j].body.documentId = h.params.documentId
                        /\ h.requests[j].body.content
                              = own[h.requests[j].body.chunkIndex + 1].content
              /\ h.chunkIds = LogIds(h.requests)
              /\ (h.hpc = "done" /\ ~Has(h.result, "isError")) =>
                    /\ h.result.text.documentId = h.params.documentId
                    /\ h.result.text.chunks = Len(own)
                    /\ h.result.text.chunkIds = LogIds(h.requests)
              /\ (h.hpc = "done" /\ Has(h.result, "isError") /\ h.requests # <<>>) =>
                    h.result.text.error = h.requests[Len(h.requests)].error

\* two invocations on different documents, both with a store in flight: A
\* waits for the store of its first chunk, B for the store of its second
C29_Witness ==
    /\ conc["A"].hpc = "awaitStore" /\ conc["A"].hk = 1
    /\ conc["B"].hpc = "awaitStore" /\ conc["B"].hk = 2
    /\ conc["A"].params.documentId # conc["B"].params.documentId
    /\ conc["B"].chunkIds = <<IdOf(0)>>

\* C30: start-up and shutdown order. The transport is started only with the
\* three tools registered, so every accepted request found all of them; the
\* SIGINT listener is installed only after the connection is established; an
\* exit with code 0 comes after the transport was closed, and the listener
\* closes the transport first.
C30_StartupOrder ==
    /\ transport \in {"started", "closed"} =>
            {registered[k] : k \in 1..Len(registered)} = ToolNames
    /\ \A j \in 1..Len(accepted) : accepted[j].known = ToolNames
    /\ sigintHandler => (connected /\ transport \in {"started", "closed"})
    /\ shutdown # "none" => (sigintHandler /\ transport = "closed")
    /\ exitCode = "0" => (transport = "closed" /\ shutdown = "exited")

\* the server ran, accepted two requests, and was shut down by SIGINT
C30_Witness ==
    /\ exitCode = "0"
    /\ transport = "closed"
    /\ Len(accepted) = 2
    /\ registered = <<"chunk_document", "search_chunks", "filter_metadata">>

====
